---- MODULE Spec2Model ----
(***************************************************************************)
(* The key-chord notation parser of keyseq_macro (src/macro/src/lib.rs).   *)
(*                                                                         *)
(* A macro invocation receives a token stream, reads a chain of modifiers  *)
(* (read_modifiers), then one key token (read_key), and packages both as   *)
(* the token text `(mods, key)` (read_key_chord).  pkey and lkey read one  *)
(* chord and reject leftover tokens; pkeyseq loops over the leftover.      *)
(*                                                                         *)
(* Token streams are sequences of records [kind, text]; kind is one of     *)
(* "Ident", "Punct", "Literal", "Group", as proc_macro2::TokenTree.        *)
(***************************************************************************)
EXTENDS Integers, Sequences, FiniteSets, TLC

VARIABLES
    macro,      \* the entry point invoked: "" | "pkey" | "lkey" | "pkeyseq"
    pc,         \* position: "idle","call","scan","key","ret","done","abort"
    source,     \* the macro's input token stream (never changes)
    input,      \* argument of the current read_key_chord call
    i,          \* read_modifiers: the peekable iterator (tokens not yet taken)
    r,          \* read_modifiers: the modifier expression built so far
    rest,       \* read_modifiers' returned remainder = read_key's input
    result,     \* read_key_chord's returned chord, <<>> or <<[mods, key]>>
    leftover,   \* read_key_chord's returned remainder
    keys,       \* pkeyseq: the vector of chords pushed so far
    output,     \* what the macro expands to: a sequence of chords
    err         \* message of the panic/abort that ended the expansion, or ""

vars == <<macro, pc, source, input, i, r, rest, result, leftover, keys, output, err>>

----------------------------------------------------------------------------
(* Bounds of the model. *)

\* longest arbitrary token stream given to a macro
MaxLen == 3
\* most `modifier-` pairs in a single written chord
MaxMods == 2
\* most chords in a written sequence
MaxChords == 2
\* most `modifier-` pairs per chord of a written sequence
SeqMods == 1

----------------------------------------------------------------------------
(* Token model *)

Ident(s)   == [kind |-> "Ident",   text |-> s]
Punct(s)   == [kind |-> "Punct",   text |-> s]
Literal(s) == [kind |-> "Literal", text |-> s]
Group(s)   == [kind |-> "Group",   text |-> s]

Dash == Punct("-")

\* 'A'..='Z'
UpperLetters ==
    {"A", "B", "C", "D", "E", "F", "G", "H", "I", "J", "K", "L", "M",
     "N", "O", "P", "Q", "R", "S", "T", "U", "V", "W", "X", "Y", "Z"}

\* 'a'..='z'
LowerLetters ==
    {"a", "b", "c", "d", "e", "f", "g", "h", "i", "j", "k", "l", "m",
     "n", "o", "p", "q", "r", "s", "t", "u", "v", "w", "x", "y", "z"}

DigitChars == <<"0", "1", "2", "3", "4", "5", "6", "7", "8", "9">>

\* x.parse::<u8>().is_ok() for a one-character x
Digits == {DigitChars[d] : d \in 1..10}

\* fn is_dash(tree: &TokenTree) -> bool
is_dash(tree) == tree.kind = "Punct" /\ tree.text = "-"

----------------------------------------------------------------------------
(* Modifier table *)

\* enum Modifier, with its discriminants
Modifier == [None |-> 0, Shift |-> 1, Control |-> 2, Alt |-> 3, Super |-> 4]

RECURSIVE Pow2(_)
Pow2(n) == IF n = 0 THEN 1 ELSE 2 * Pow2(n - 1)

RECURSIVE Decimal(_)
Decimal(n) ==
    IF n < 10 THEN DigitChars[n + 1]
    ELSE Decimal(n \div 10) \o DigitChars[(n % 10) + 1]

\* proc_macro2::Literal::u8_suffixed
u8_suffixed(n) == Decimal(n) \o "u8"

\* a plausible slip: the enum discriminant is used as the flag itself
modifiers_id_unshifted(modifier) == u8_suffixed(Modifier[modifier])

\* fn modifiers_id(modifier: Modifier) -> TokenStream; the text of the one
\* literal token it returns.  `1 << (number - 1)` is computed in u8.
modifiers_id(modifier) ==
    LET number == Modifier[modifier]
    IN  IF number # 0
        THEN u8_suffixed(Pow2(number - 1) % 256)
        ELSE u8_suffixed(number)

----------------------------------------------------------------------------
(* Key resolvers.  A resolver returns [tag, val]: tag "Some" with the key  *)
(* text, "None", "todo" (the todo!() panic) or "abort" (abort!).           *)

Some(s)   == [tag |-> "Some",  val |-> s]
None      == [tag |-> "None",  val |-> ""]
Todo      == [tag |-> "todo",  val |-> ""]
Abort(m)  == [tag |-> "abort", val |-> m]

\* the quoted-literal table shared by get_pkey and get_key_raw
literal_name(x) ==
    CASE x = "'\\''"   -> Some("Apostrophe")
      [] x = "'`'"     -> Some("Grave")
      [] x = "'\\\\'"  -> Some("Backslash")
      [] OTHER         -> Todo

\* a plausible slip: punctuation outside the table is passed through
\* (the `_ => None` arm left in the source as a comment, with the symbol kept)
punct_name_passthrough(c) ==
    CASE c = ";" -> Some("Semicolon")
      [] c = ":" -> Some("Colon")
      [] c = "," -> Some("Comma")
      [] c = "." -> Some("Period")
      [] c = "^" -> Some("Caret")
      [] c = "=" -> Some("Equals")
      [] c = "/" -> Some("Slash")
      [] c = "-" -> Some("Minus")
      [] c = "*" -> Some("Asterisk")
      [] c = "+" -> Some("Plus")
      [] c = "@" -> Some("At")
      [] OTHER   -> Some(c)

\* the punctuation table of get_pkey
punct_name(c) ==
    CASE c = ";" -> Some("Semicolon")
      [] c = ":" -> Some("Colon")
      [] c = "," -> Some("Comma")
      [] c = "." -> Some("Period")
      [] c = "^" -> Some("Caret")
      [] c = "=" -> Some("Equals")
      [] c = "/" -> Some("Slash")
      [] c = "-" -> Some("Minus")
      [] c = "*" -> Some("Asterisk")
      [] c = "+" -> Some("Plus")
      [] c = "@" -> Some("At")
      [] OTHER   -> Todo

\* fn key_code_path(id: Ident) -> TokenStream: the string literal holding
\* the identifier's name; the literal's value is that name
key_code_path(id) == id

\* a plausible slip: a lowercase letter is taken as it is written
pkey_ident_any_case(label) ==
    IF Len(label) = 1
    THEN CASE label \in UpperLetters \cup LowerLetters -> Some(label)
           [] OTHER -> Todo
    ELSE Some(label)

\* the Ident arm of get_pkey
pkey_ident(label) ==
    IF Len(label) = 1
    THEN CASE label \in UpperLetters -> Some(label)
           [] label \in LowerLetters -> Abort("Use uppercase key names")
           [] OTHER -> Todo
    ELSE Some(label)

\* fn get_pkey(tree: TokenTree) -> Option<TokenStream>
get_pkey(tree) ==
    LET x == tree.text
        found ==
            CASE tree.kind = "Literal" ->
                    IF Len(x) = 1 /\ x \in Digits
                    THEN Some("Key" \o x)
                    ELSE literal_name(x)
              [] tree.kind = "Punct" -> punct_name(x)
              [] tree.kind = "Ident" -> pkey_ident(x)
              [] OTHER -> None
    IN  IF found.tag = "Some" THEN Some(key_code_path(found.val)) ELSE found

\* fn get_key_raw(tree) -> Option<Result<char, Cow<str>>>; res is "Ok" for
\* a character and "Err" for a name
get_key_raw(tree) ==
    LET x == tree.text
    IN  CASE tree.kind = "Literal" ->
                IF Len(x) = 1
                THEN [tag |-> "Some", res |-> "Ok", val |-> x]
                ELSE LET name == literal_name(x)
                     IN  IF name.tag = "Some"
                         THEN [tag |-> "Some", res |-> "Err", val |-> name.val]
                         ELSE [tag |-> "todo", res |-> "", val |-> ""]
          [] tree.kind = "Punct" -> [tag |-> "Some", res |-> "Ok", val |-> x]
          [] tree.kind = "Ident" ->
                IF Len(x) = 1
                THEN [tag |-> "Some", res |-> "Ok", val |-> x]
                ELSE [tag |-> "Some", res |-> "Err", val |-> x]
          [] OTHER -> [tag |-> "None", res |-> "", val |-> ""]

\* fn get_key(tree: TokenTree) -> Option<TokenStream>: both arms make the
\* string literal of the character or name
get_key(tree) ==
    LET raw == get_key_raw(tree)
    IN  [tag |-> raw.tag, val |-> raw.val]

----------------------------------------------------------------------------
(* The generated modifier expression and its value *)

\* the replacement token of one consumed tree in read_modifiers;
\* `replacement.unwrap_or(tree)` copies every other tree unchanged
replacement(tree) ==
    CASE tree.kind = "Ident" /\ tree.text = "shift" -> Group(modifiers_id("Shift"))
      [] tree.kind = "Ident" /\ tree.text = "ctrl"  -> Group(modifiers_id("Control"))
      [] tree.kind = "Ident" /\ tree.text = "alt"   -> Group(modifiers_id("Alt"))
      [] tree.kind = "Ident" /\ tree.text = "super" -> Group(modifiers_id("Super"))
      [] tree.kind = "Punct" /\ tree.text = "-"     -> Punct("|")
      [] OTHER -> tree

\* the test of the scan loop that ends it at `tree`; after = the trees
\* still in the iterator
scan_breaks(tree, after) ==
    IF after = <<>> THEN TRUE ELSE ~is_dash(tree) /\ ~is_dash(Head(after))

U8 == 0..255

U8Text == [n \in U8 |-> u8_suffixed(n)]

\* the u8 value of one operand token of the generated expression, -1 when
\* the token is no u8 literal
operand(tok) ==
    IF tok.kind \in {"Group", "Literal"} /\ \E n \in U8 : U8Text[n] = tok.text
    THEN CHOOSE n \in U8 : U8Text[n] = tok.text
    ELSE IF tok.kind = "Literal" /\ tok.text \in Digits
    THEN CHOOSE d \in 0..9 : DigitChars[d + 1] = tok.text
    ELSE -1

RECURSIVE BitOr(_, _)
BitOr(a, b) ==
    IF a = 0 THEN b
    ELSE IF b = 0 THEN a
    ELSE (IF a % 2 = 1 \/ b % 2 = 1 THEN 1 ELSE 0) + 2 * BitOr(a \div 2, b \div 2)

\* the value of the expression `mods` the macro emits, as the compiler
\* evaluates it: operands joined by `|`; -1 when it is no such expression
RECURSIVE MaskValue(_)
MaskValue(mods) ==
    IF mods = <<>> THEN -1
    ELSE IF Len(mods) = 1 THEN operand(mods[1])
    ELSE IF operand(mods[1]) = -1 \/ mods[2] # Punct("|") THEN -1
    ELSE LET tail == MaskValue(SubSeq(mods, 3, Len(mods)))
         IN  IF tail = -1 THEN -1 ELSE BitOr(operand(mods[1]), tail)

\* the chord `(mods, key)` as the value the expansion has
ChordValue(c) == <<MaskValue(c.mods), c.key>>

----------------------------------------------------------------------------
(* Inputs *)

SeqsUpTo(S, n) == UNION {[1..k -> S] : k \in 0..n}

RECURSIVE Flatten(_)
Flatten(ss) == IF ss = <<>> THEN <<>> ELSE Head(ss) \o Flatten(Tail(ss))

ModifierNames == {"shift", "ctrl", "alt", "super"}

\* the notation of one chord: `modifier-` pairs, then the key token
Notation(mods, key) ==
    Flatten([k \in 1..Len(mods) |-> <<Ident(mods[k]), Dash>>]) \o <<key>>

\* tokens of arbitrary streams: names, punctuation, literals and a group
Alphabet ==
    {Ident("shift"), Ident("ctrl"), Ident("A"), Ident("a"), Ident("foo"),
     Dash, Punct(";"), Punct("!"), Literal("1"), Literal("'x'"), Group("()")}

\* key tokens of single written chords
ChordKeys ==
    {Ident("A"), Ident("Z"), Ident("a"), Ident("_"), Ident("Semicolon"),
     Ident("NoSuchKey"), Ident("Escape"), Ident("shift"),
     Punct(";"), Punct(":"), Punct(","), Punct("."), Punct("^"), Punct("="),
     Punct("/"), Punct("-"), Punct("*"), Punct("+"), Punct("@"), Punct("!"),
     Literal("0"), Literal("1"), Literal("9"), Literal("12"), Literal("'x'"),
     Literal("'\\''"), Literal("'`'"), Literal("'\\\\'"), Group("()")}

\* key tokens and modifiers of written sequences
SeqKeys == {Ident("A"), Ident("B"), Dash}
SeqModifierNames == {"shift", "ctrl"}

ArbitraryInputs == SeqsUpTo(Alphabet, MaxLen)

SingleChordInputs ==
    {Notation(m, k) : m \in SeqsUpTo(ModifierNames, MaxMods), k \in ChordKeys}

SeqChords ==
    {Notation(m, k) : m \in SeqsUpTo(SeqModifierNames, SeqMods), k \in SeqKeys}

SequenceInputs == {Flatten(cs) : cs \in SeqsUpTo(SeqChords, MaxChords) \ {<<>>}}

Inputs == ArbitraryInputs \cup SingleChordInputs \cup SequenceInputs

----------------------------------------------------------------------------
(* The macros *)

Init ==
    /\ source \in Inputs
    /\ macro = ""
    /\ pc = "idle"
    /\ input = <<>>
    /\ i = <<>>
    /\ r = <<>>
    /\ rest = <<>>
    /\ result = <<>>
    /\ leftover = <<>>
    /\ keys = <<>>
    /\ output = <<>>
    /\ err = ""

\* read_key_chord is entered with `inp`: read_modifiers starts with an
\* empty r and the iterator over inp
read_key_chord(inp) ==
    /\ input' = inp
    /\ i' = inp
    /\ r' = <<>>
    /\ rest' = <<>>
    /\ pc' = "scan"

\* pkey!(source)
pkey ==
    /\ pc = "idle"
    /\ macro' = "pkey"
    /\ read_key_chord(source)
    /\ UNCHANGED <<source, result, leftover, keys, output, err>>

\* lkey!(source)
lkey ==
    /\ pc = "idle"
    /\ macro' = "lkey"
    /\ read_key_chord(source)
    /\ UNCHANGED <<source, result, leftover, keys, output, err>>

\* pkeyseq!(source), up to the first read_key_chord
pkeyseq ==
    /\ pc = "idle"
    /\ macro' = "pkeyseq"
    /\ read_key_chord(source)
    /\ keys' = <<>>
    /\ UNCHANGED <<source, result, leftover, output, err>>

\* one pass of read_modifiers' loop that goes on: the tree is replaced and
\* appended to r
read_modifiers_step ==
    /\ pc = "scan"
    /\ i # <<>>
    /\ ~scan_breaks(Head(i), Tail(i))
    /\ r' = Append(r, replacement(Head(i)))
    /\ i' = Tail(i)
    /\ UNCHANGED <<macro, pc, source, input, rest, result, leftover, keys, output, err>>

\* read_modifiers leaves its loop (the iterator is exhausted, or the break
\* with last_tree = Head(i)), appends `0u8` and returns
read_modifiers_return ==
    /\ pc = "scan"
    /\ IF i = <<>> THEN TRUE ELSE scan_breaks(Head(i), Tail(i))
    /\ r' = Append(r, Literal(modifiers_id("None")))
    /\ rest' = i
    /\ i' = <<>>
    /\ pc' = "key"
    /\ UNCHANGED <<macro, source, input, result, leftover, keys, output, err>>

\* the resolver the entry point passes to read_key_chord
resolver(tree) == IF macro = "pkey" THEN get_pkey(tree) ELSE get_key(tree)

\* a plausible slip: the key token is looked at but stays in the stream
read_key_remainder_peeked(stream) == stream

\* what read_key returns as its remainder: the iterator after one next()
read_key_remainder(stream) == Tail(stream)

\* read_key, then read_key_chord's `(#mods, #key)`
read_key ==
    /\ pc = "key"
    /\ IF rest = <<>>
       THEN /\ pc' = "abort"
            /\ err' = "No token tree"
            /\ UNCHANGED <<result, leftover>>
       ELSE LET key == resolver(Head(rest))
            IN  CASE key.tag = "Some" ->
                        /\ result' = <<[mods |-> r, key |-> key.val]>>
                        /\ leftover' = read_key_remainder(rest)
                        /\ pc' = "ret"
                        /\ err' = err
                  [] key.tag = "None" ->
                        /\ pc' = "abort"
                        /\ err' = "No logical key found"
                        /\ UNCHANGED <<result, leftover>>
                  [] key.tag = "todo" ->
                        /\ pc' = "abort"
                        /\ err' = "not yet implemented"
                        /\ UNCHANGED <<result, leftover>>
                  [] key.tag = "abort" ->
                        /\ pc' = "abort"
                        /\ err' = key.val
                        /\ UNCHANGED <<result, leftover>>
    /\ UNCHANGED <<macro, source, input, i, r, rest, keys, output>>

\* the end of pkey and of lkey
single_chord_return ==
    /\ pc = "ret"
    /\ IF leftover # <<>>
       THEN /\ pc' = "abort"
            /\ err' = "Too many tokens; use keyseq! for multiple keys"
            /\ output' = output
       ELSE /\ pc' = "done"
            /\ err' = err
            /\ output' = result
    /\ UNCHANGED <<macro, source, input, i, r, rest, result, leftover, keys>>

\* a plausible slip: the leftover is not looked at
pkey_return_unchecked ==
    /\ macro = "pkey"
    /\ pc = "ret"
    /\ pc' = "done"
    /\ output' = result
    /\ UNCHANGED <<macro, source, input, i, r, rest, result, leftover, keys, err>>

pkey_return ==
    /\ macro = "pkey"
    /\ single_chord_return

lkey_return ==
    /\ macro = "lkey"
    /\ single_chord_return

\* pkeyseq's loop body after read_key_chord returned
pkeyseq_return ==
    /\ macro = "pkeyseq"
    /\ pc = "ret"
    /\ keys' = Append(keys, result[1])
    /\ result' = <<>>
    /\ leftover' = <<>>
    /\ IF leftover = <<>>
       THEN /\ pc' = "done"
            /\ output' = keys'
            /\ UNCHANGED <<input, i, r, rest>>
       ELSE /\ read_key_chord(leftover)
            /\ output' = output
    /\ UNCHANGED <<macro, source, err>>

Next ==
    \/ pkey
    \/ lkey
    \/ pkeyseq
    \/ read_modifiers_step
    \/ read_modifiers_return
    \/ read_key
    \/ pkey_return
    \/ lkey_return
    \/ pkeyseq_return

Spec == Init /\ [][Next]_vars

\* a macro expansion is one synchronous call: it keeps running until it
\* returns or panics
FairSpec == Spec /\ WF_vars(Next)

----------------------------------------------------------------------------
(* The notation, as the documentation writes it:                           *)
(*     chord := (modifier '-')* key        sequence := chord+              *)

TooManyTokens == "Too many tokens; use keyseq! for multiple keys"
Ended == pc \in {"done", "abort"}

IsModifierName(tok) == tok.kind = "Ident" /\ tok.text \in ModifierNames

\* the number of tokens of the leading `modifier-` pairs of a stream
RECURSIVE ModifierPrefix(_)
ModifierPrefix(t) ==
    IF Len(t) >= 2 /\ IsModifierName(t[1]) /\ is_dash(t[2])
    THEN 2 + ModifierPrefix(SubSeq(t, 3, Len(t)))
    ELSE 0

From(t, k) == SubSeq(t, k, Len(t))

\* Shift=1, Control=2, Alt=4, Super=8, OR-ed over the modifiers written in
\* the first n tokens of t
WrittenMask(t, n) ==
    LET written == {t[k].text : k \in 1..n} IN
      (IF "shift" \in written THEN 1 ELSE 0)
    + (IF "ctrl"  \in written THEN 2 ELSE 0)
    + (IF "alt"   \in written THEN 4 ELSE 0)
    + (IF "super" \in written THEN 8 ELSE 0)

\* a stream that is exactly one written chord
IsOneChord(t) == t # <<>> /\ ModifierPrefix(t) = Len(t) - 1

\* the chords written in a stream, each as <<mask, key token>>; a trailing
\* modifier chain without a key is written as <<-1, Dash>>
RECURSIVE Written(_)
Written(t) ==
    IF t = <<>> THEN <<>>
    ELSE LET n == ModifierPrefix(t) IN
         IF n = Len(t) THEN << <<-1, Dash>> >>
         ELSE << <<WrittenMask(t, n), t[n + 1]>> >> \o Written(From(t, n + 2))

----------------------------------------------------------------------------
(* Claims *)

\* C1: pkeyseq returns exactly one chord per written chord, in the order
\* written: for an input of n >= 1 well-formed chords the output has length
\* n and its k-th element is the (mask, key) of the k-th written chord.
C1_SequenceInOrder ==
    LET w == Written(source) IN
    (/\ macro = "pkeyseq"
     /\ Ended
     /\ source # <<>>
     /\ \A k \in 1..Len(w) : w[k][1] # -1 /\ get_key(w[k][2]).tag = "Some")
    => /\ pc = "done"
       /\ Len(output) = Len(w)
       /\ \A k \in 1..Len(w) :
            ChordValue(output[k]) = <<w[k][1], get_key(w[k][2]).val>>

\* C2: for `modifier-` pairs of shift/ctrl/alt/super in any order and with
\* any repetition before a key, the mask is the OR of the flags 1, 2, 4, 8
\* of the modifiers written, and 0 when none is written.
C2_MaskIsOrOfFlags ==
    (pc = "ret" /\ IsOneChord(input))
    => MaskValue(result[1].mods) = WrittenMask(input, Len(input) - 1)

C2_Witness ==
    /\ pc = "ret"
    /\ input = Notation(<<"ctrl", "shift">>, Ident("A"))
    /\ MaskValue(result[1].mods) = 3

\* C3: pkey and lkey fail with "Too many tokens" whenever a token remains
\* after the first chord has been read, producing no chord, and succeed
\* only when the remainder after one chord is empty.
C3_ExcessTokens ==
    macro \in {"pkey", "lkey"} =>
        /\ (Ended /\ result # <<>> /\ leftover # <<>>)
           => (pc = "abort" /\ err = TooManyTokens /\ output = <<>>)
        /\ pc = "done" => (leftover = <<>> /\ result # <<>> /\ output = result)

C3_Witness ==
    /\ macro = "pkey"
    /\ source = <<Ident("A"), Ident("B")>>
    /\ pc = "abort"
    /\ err = TooManyTokens
    /\ output = <<>>

\* C4: pkeyseq and pkey are the same chord parser: on an input holding one
\* chord pkeyseq yields the one chord pkey yields (the key resolved as
\* get_pkey resolves it), and fails where pkey fails.
C4_SameChordParser ==
    (macro = "pkeyseq" /\ Ended /\ IsOneChord(source)) =>
        LET key == get_pkey(source[Len(source)]) IN
        IF key.tag = "Some"
        THEN /\ pc = "done"
             /\ Len(output) = 1
             /\ ChordValue(output[1]) =
                    <<WrittenMask(source, Len(source) - 1), key.val>>
        ELSE pc = "abort"

\* C5: read_modifiers consumes a token only as part of a pair of a
\* recognized modifier name and the dash after it, leaves the first other
\* token at the head of the remainder and puts nothing of it into the
\* mask; `shift` alone is returned as the key with mask 0.
C5_OnlyModifierPairsConsumed ==
    pc = "key" =>
        /\ Len(input) - Len(rest) <= ModifierPrefix(input)
        /\ rest = From(input, Len(input) - Len(rest) + 1)
        /\ MaskValue(r) = WrittenMask(input, Len(input) - Len(rest))
        /\ input = <<Ident("shift")>> => (rest = input /\ MaskValue(r) = 0)

\* C6: read_key_chord consumes exactly the `modifier-` pairs of the first
\* chord and one key token: it returns that chord's mask and key, and the
\* remainder is exactly the tokens after the key token.
C6_ChordFrame ==
    LET n == ModifierPrefix(input) IN
    (/\ pc = "ret" \/ (pc = "abort" /\ err # TooManyTokens)
     /\ n < Len(input)
     /\ resolver(input[n + 1]).tag = "Some")
    => /\ pc = "ret"
       /\ leftover = From(input, n + 2)
       /\ ChordValue(result[1]) =
              <<WrittenMask(input, n), resolver(input[n + 1]).val>>

\* C7: when no key token remains after the modifier chain (the input is
\* empty or holds only `modifier-` pairs), every entry point fails with the
\* no-key-token error and produces no chord.
C7_NoKeyToken ==
    (pc \in {"ret", "done", "abort"} /\ ModifierPrefix(input) = Len(input))
    => (pc = "abort" /\ err = "No token tree" /\ result = <<>> /\ output = <<>>)

\* C8: under pkey a chord whose key token is one lowercase letter fails
\* with "Use uppercase key names" whatever the modifiers, yielding no
\* chord; one uppercase letter K alone yields (0, K).
C8_LowercaseKeyName ==
    macro = "pkey" =>
        /\ (/\ pc \in {"ret", "done", "abort"}
            /\ rest # <<>>
            /\ Head(rest).kind = "Ident"
            /\ Head(rest).text \in LowerLetters)
           => (/\ pc = "abort"
               /\ err = "Use uppercase key names"
               /\ result = <<>>
               /\ output = <<>>)
        /\ (/\ Ended
            /\ Len(source) = 1
            /\ source[1].kind = "Ident"
            /\ source[1].text \in UpperLetters)
           => (/\ pc = "done"
               /\ Len(output) = 1
               /\ ChordValue(output[1]) = <<0, source[1].text>>)

C8_Witness ==
    /\ macro = "pkey"
    /\ source = Notation(<<"shift">>, Ident("a"))
    /\ pc = "abort"
    /\ err = "Use uppercase key names"

\* the disambiguation table of the physical-key resolver
DigitKey ==
    [d \in Digits |->
        CASE d = "0" -> "Key0" [] d = "1" -> "Key1" [] d = "2" -> "Key2"
          [] d = "3" -> "Key3" [] d = "4" -> "Key4" [] d = "5" -> "Key5"
          [] d = "6" -> "Key6" [] d = "7" -> "Key7" [] d = "8" -> "Key8"
          [] d = "9" -> "Key9"]

PunctKey ==
    [c \in {";", ":", ",", ".", "^", "=", "/", "-", "*", "+", "@"} |->
        CASE c = ";" -> "Semicolon" [] c = ":" -> "Colon" [] c = "," -> "Comma"
          [] c = "." -> "Period" [] c = "^" -> "Caret" [] c = "=" -> "Equals"
          [] c = "/" -> "Slash" [] c = "-" -> "Minus" [] c = "*" -> "Asterisk"
          [] c = "+" -> "Plus" [] c = "@" -> "At"]

QuotedKey ==
    [q \in {"'\\''", "'`'", "'\\\\'"} |->
        CASE q = "'\\''" -> "Apostrophe" [] q = "'`'" -> "Grave"
          [] q = "'\\\\'" -> "Backslash"]

\* C9: get_pkey agrees with the disambiguation table for every key token:
\* a digit d gives Key{d}, the eleven punctuation symbols give their names,
\* a multi-character name is used verbatim, and a literal or punctuation
\* outside the table fails; `alt-ctrl-;` is (6, "Semicolon") and `alt-1`
\* is (4, "Key1").
C9_DisambiguationTable ==
    (macro = "pkey" /\ pc \in {"ret", "done", "abort"} /\ rest # <<>>) =>
        LET t == Head(rest)
            resolved(name) == result # <<>> /\ result[1].key = name
            failed == /\ pc = "abort"
                      /\ err = "not yet implemented"
                      /\ result = <<>>
                      /\ output = <<>>
        IN  /\ (t.kind = "Literal" /\ t.text \in Digits) => resolved(DigitKey[t.text])
            /\ (t.kind = "Literal" /\ t.text \in DOMAIN QuotedKey)
                    => resolved(QuotedKey[t.text])
            /\ (t.kind = "Literal" /\ t.text \notin Digits \cup DOMAIN QuotedKey)
                    => failed
            /\ (t.kind = "Punct" /\ t.text \in DOMAIN PunctKey)
                    => resolved(PunctKey[t.text])
            /\ (t.kind = "Punct" /\ t.text \notin DOMAIN PunctKey) => failed
            /\ (t.kind = "Ident" /\ Len(t.text) > 1) => resolved(t.text)
            /\ (pc = "done" /\ source = Notation(<<"alt", "ctrl">>, Punct(";")))
                    => ChordValue(output[1]) = <<6, "Semicolon">>
            /\ (pc = "done" /\ source = Notation(<<"alt">>, Literal("1")))
                    => ChordValue(output[1]) = <<4, "Key1">>

C9_Witness ==
    /\ macro = "pkey"
    /\ pc = "done"
    /\ source = Notation(<<"alt", "ctrl">>, Punct(";"))
    /\ ChordValue(output[1]) = <<6, "Semicolon">>

\* C10: the sequence reader terminates: a read_key_chord call that returns
\* returns a remainder strictly shorter than its input, so every pass of
\* pkeyseq's loop starts on a strictly shorter stream, every pass of
\* read_modifiers' scan takes a token from the iterator, and every
\* expansion ends with its output or with an error.
C10_SequenceReaderTerminates ==
    /\ [][/\ (pc = "key" /\ pc' = "ret") => Len(leftover') < Len(input)
          /\ (pc = "ret" /\ pc' = "scan") => Len(input') < Len(input)
          /\ (pc = "scan" /\ pc' = "scan") => Len(i') < Len(i)]_vars
    /\ <>Ended

C10_Witness ==
    /\ macro = "pkeyseq"
    /\ pc = "scan"
    /\ Len(keys) = 2
    /\ input # <<>>
    /\ Len(input) < Len(source)

====
